---- MODULE Spec2Model ----
(***************************************************************************)
(* Connection and channel lifecycle of kuyruk.                             *)
(*                                                                         *)
(*   kuyruk/connection.py  LazyConnection: a lazily opened pika            *)
(*                         connection (is_open, open, channel, close).     *)
(*   kuyruk/__init__.py    Kuyruk.channel() / Kuyruk.connection(): scoped  *)
(*                         amqp connection and channel with release in     *)
(*                         finally blocks, and _is_alive.                  *)
(*                                                                         *)
(*                         Kuyruk.__init__ and the Kuyruk.task decorator   *)
(*                         (specification SpecTask).                       *)
(*                                                                         *)
(* The two classes share no state (connection.py is not imported by        *)
(* __init__.py), so a behaviour exercises one object: obj says which.      *)
(* SpecThreads runs LazyConnection.channel() from several threads.         *)
(***************************************************************************)
EXTENDS Naturals, Sequences, FiniteSets

\* Number of pika connections one LazyConnection may create in a behaviour.
MaxConns == 3
\* Number of Kuyruk scopes a behaviour enters, and how deep they nest.
MaxScopes == 3
MaxDepth == 2

VARIABLES
    obj,            \* the object the behaviour exercises
    _connection,    \* LazyConnection._connection: 0 is None, else an index of conns
    conns,          \* every pika.BlockingConnection the manager created, in order
    op,             \* the last operation or library event
    res,            \* how the last operation ended: "ok" or the error raised
    ret,            \* channel(): the connection the returned channel is on, 0 if none
    attempt,        \* the broker's answer if the last operation tried to connect
    stack,          \* Kuyruk: the scopes entered and not yet left, innermost last
    last,           \* Kuyruk: what the latest scope entry or exit did
    hist,           \* Kuyruk: events so far (connections and channels opened, closed)
    kuyruk,         \* the Kuyruk instance: its config once constructed, else NoInstance
    builder,        \* what task(...) with arguments returned and awaits a function
    reg,            \* the latest registration: how task was applied and its result
    net,            \* network events caused by constructing and registering
    thr,            \* threads in LazyConnection.channel(): where each one is
    race            \* what the threads' calls have shown so far

lazyVars == <<_connection, conns, op, res, ret, attempt>>
kuyrukVars == <<stack, last, hist>>
taskVars == <<kuyruk, builder, reg, net>>
threadVars == <<thr, race>>
vars == <<obj, _connection, conns, op, res, ret, attempt, stack, last, hist,
          kuyruk, builder, reg, net, thr, race>>

None == 0

(***************************************************************************)
(* pika.BlockingConnection as the manager sees it: the library's is_open   *)
(* flag, how many times close() was called on it, and the outcome of the   *)
(* library's latest heartbeat exchange on it.                              *)
(***************************************************************************)
NewConnection == [is_open |-> TRUE, closes |-> 0, probe |-> "none"]

\* connection.py:16-18
is_open_ignores_flag == _connection # None

is_open == _connection # None /\ conns[_connection].is_open

(***************************************************************************)
(* connection.py:20-26, open().  accepts: whether the broker accepts the   *)
(* connection attempt made by pika.BlockingConnection(parameters).  The    *)
(* value is the error raised ("ok" if none), the new _connection (c) and   *)
(* conns (t), and whether a connection attempt was made (att).             *)
(***************************************************************************)
Connected == [res |-> "ok", c |-> Len(conns) + 1,
              t |-> Append(conns, NewConnection), att |-> "accepted"]

Rejected == [res |-> "ConnectionError", c |-> _connection, t |-> conns,
             att |-> "rejected"]

Untouched(r) == [res |-> r, c |-> _connection, t |-> conns, att |-> "none"]

open_no_assert(accepts) ==
    IF accepts THEN Connected ELSE Rejected

open_stores_first(accepts) ==
    IF is_open THEN Untouched("AssertionError")
    ELSE IF accepts THEN Connected
    ELSE [Rejected EXCEPT !.c = Len(conns) + 1,
             !.t = Append(conns, [NewConnection EXCEPT !.is_open = FALSE])]

open_reconnects_in_place(accepts) ==
    IF is_open THEN Untouched("AssertionError")
    ELSE IF ~accepts THEN Rejected
    ELSE IF _connection = None THEN Connected
    ELSE [Connected EXCEPT !.c = _connection,
             !.t = [conns EXCEPT ![_connection].is_open = TRUE]]

open(accepts) ==
    IF is_open THEN Untouched("AssertionError")
    ELSE IF accepts THEN Connected
    ELSE Rejected

(***************************************************************************)
(* connection.py:28-32, channel().  created: whether                       *)
(* self._connection.channel() succeeds.  ret is the connection the         *)
(* returned channel is on, None when the call raised.                      *)
(***************************************************************************)
NewChannel(o, created) ==
    IF o.res # "ok" THEN [res |-> o.res, c |-> o.c, t |-> o.t, att |-> o.att, ret |-> None]
    ELSE IF created THEN [res |-> "ok", c |-> o.c, t |-> o.t, att |-> o.att, ret |-> o.c]
    ELSE [res |-> "ChannelError", c |-> o.c, t |-> o.t, att |-> o.att, ret |-> None]

channel_always_opens(accepts, created) ==
    NewChannel(open_no_assert(accepts), created)

channel(accepts, created) ==
    NewChannel(IF ~is_open THEN open(accepts) ELSE Untouched("ok"), created)

(***************************************************************************)
(* connection.py:34-39, close().  clean: whether self._connection.close()  *)
(* returns without raising; pika leaves the open state before it sends     *)
(* anything, so the flag is down either way.                               *)
(***************************************************************************)
Closed(clean) ==
    [res |-> IF clean THEN "ok" ELSE "CloseError", c |-> _connection,
     t |-> [conns EXCEPT ![_connection].is_open = FALSE,
                         ![_connection].closes = @ + 1],
     att |-> "none"]

close_unguarded(clean) ==
    IF _connection # None THEN Closed(clean) ELSE Untouched("AttributeError")

close(clean) ==
    IF is_open THEN Closed(clean) ELSE Untouched("ok")

\* A successful open needs room for one more connection in the behaviour.
Room(accepts) == accepts => Len(conns) < MaxConns

LazyOpen ==
    /\ obj = "LazyConnection"
    /\ \E accepts \in BOOLEAN :
        /\ Room(accepts)
        /\ LET o == open(accepts)
           IN  /\ _connection' = o.c
               /\ conns' = o.t
               /\ res' = o.res
               /\ attempt' = o.att
    /\ op' = "open"
    /\ ret' = None
    /\ UNCHANGED <<obj, taskVars, threadVars, kuyrukVars>>

LazyChannel ==
    /\ obj = "LazyConnection"
    /\ \E accepts \in BOOLEAN, created \in BOOLEAN :
        /\ Room(accepts)
        /\ LET o == channel(accepts, created)
           IN  /\ _connection' = o.c
               /\ conns' = o.t
               /\ res' = o.res
               /\ ret' = o.ret
               /\ attempt' = o.att
    /\ op' = "channel"
    /\ UNCHANGED <<obj, taskVars, threadVars, kuyrukVars>>

LazyClose ==
    /\ obj = "LazyConnection"
    /\ \E clean \in BOOLEAN :
        LET o == close(clean)
        IN  /\ _connection' = o.c
            /\ conns' = o.t
            /\ res' = o.res
            /\ attempt' = o.att
    /\ op' = "close"
    /\ ret' = None
    /\ UNCHANGED <<obj, taskVars, threadVars, kuyrukVars>>

(***************************************************************************)
(* The library's side of connection.py:18: the broker or the network ends  *)
(* a connection, and pika's heartbeat exchange on an open connection       *)
(* either succeeds or fails; pika takes the connection out of the open     *)
(* state in both failure cases.                                            *)
(***************************************************************************)
ConnectionDies ==
    /\ obj = "LazyConnection"
    /\ \E c \in DOMAIN conns :
        /\ conns[c].is_open
        /\ conns' = [conns EXCEPT ![c].is_open = FALSE]
    /\ op' = "dies"
    /\ res' = "ok"
    /\ ret' = None
    /\ attempt' = "none"
    /\ UNCHANGED <<obj, taskVars, threadVars, _connection, kuyrukVars>>

Heartbeat ==
    /\ obj = "LazyConnection"
    /\ \E c \in DOMAIN conns, answered \in BOOLEAN :
        /\ conns[c].is_open
        /\ conns' = [conns EXCEPT ![c].probe = IF answered THEN "ok" ELSE "failed",
                                  ![c].is_open = answered]
    /\ op' = "heartbeat"
    /\ res' = "ok"
    /\ ret' = None
    /\ attempt' = "none"
    /\ UNCHANGED <<obj, taskVars, threadVars, _connection, kuyrukVars>>

(***************************************************************************)
(* kuyruk/__init__.py.  The amqp library's calls end "ok" or raise; an     *)
(* error is an IOError or of another class ("Other": amqp's own            *)
(* exceptions do not derive from IOError).  An error in flight is named    *)
(* after the step that raised it; "none" is no error.                      *)
(***************************************************************************)
ErrClasses == {"IOError", "Other"}

NoEvent == [kind |-> "none", acquire |-> "none", body |-> "none", raised |-> "none",
            chBefore |-> "none", ch |-> "none", conn |-> "none", hb |-> "none",
            chCloseCalls |-> 0, probes |-> 0, connCloseCalls |-> 0, steps |-> <<>>]

NoHist == [calls |-> 0, connOpens |-> 0, chOpens |-> 0, chCloses |-> 0,
           connCloses |-> 0, leaked |-> 0, nested |-> FALSE, faulted |-> FALSE]

(***************************************************************************)
(* __init__.py:120-126, _is_alive(conn).  hb: how conn.send_heartbeat()    *)
(* ended.  Only IOError is caught.                                         *)
(***************************************************************************)
_is_alive_inverted(hb) ==
    IF hb = "ok" THEN [value |-> FALSE, raised |-> "none"]
    ELSE IF hb = "IOError" THEN [value |-> TRUE, raised |-> "none"]
    ELSE [value |-> FALSE, raised |-> "HeartbeatError"]

_is_alive(hb) ==
    IF hb = "ok" THEN [value |-> TRUE, raised |-> "none"]
    ELSE IF hb = "IOError" THEN [value |-> FALSE, raised |-> "none"]
    ELSE [value |-> FALSE, raised |-> "HeartbeatError"]

(***************************************************************************)
(* __init__.py:90-95, the finally block of channel().  ch: the channel's   *)
(* is_open flag ("open" or "closed"); pending: the error in flight when    *)
(* the block is entered; closing: how ch.close() ends if it is called.     *)
(* amqp lowers the channel's flag only when the close completes.           *)
(***************************************************************************)
ChannelFinally_skips_open(ch, pending, closing) ==
    IF ch # "open"
    THEN IF closing = "ok"
         THEN [ch |-> "closed", raised |-> pending, calls |-> 1, closed |-> 0]
         ELSE IF closing = "IOError"
         THEN [ch |-> ch, raised |-> pending, calls |-> 1, closed |-> 0]
         ELSE [ch |-> ch, raised |-> "ChannelCloseError", calls |-> 1, closed |-> 0]
    ELSE [ch |-> ch, raised |-> pending, calls |-> 0, closed |-> 0]

ChannelFinally(ch, pending, closing) ==
    IF ch = "open"
    THEN IF closing = "ok"
         THEN [ch |-> "closed", raised |-> pending, calls |-> 1, closed |-> 1]
         ELSE IF closing = "IOError"
         THEN [ch |-> "open", raised |-> pending, calls |-> 1, closed |-> 0]
         ELSE [ch |-> "open", raised |-> "ChannelCloseError", calls |-> 1, closed |-> 0]
    ELSE [ch |-> ch, raised |-> pending, calls |-> 0, closed |-> 0]

(***************************************************************************)
(* __init__.py:115-117, the finally block of connection().  conn: the      *)
(* connection's state when the block is entered; hb: how send_heartbeat()  *)
(* ends; closing: how conn.close() ends if it is called (an error of any   *)
(* class leaves the block).  A connection whose close() failed is broken.  *)
(***************************************************************************)
ConnectionFinally(conn, pending, hb, closing) ==
    LET p == _is_alive(hb)
    IN  IF p.raised # "none"
        THEN [conn |-> conn, raised |-> p.raised, probes |-> 1, calls |-> 0, closed |-> 0]
        ELSE IF p.value
        THEN IF closing = "ok"
             THEN [conn |-> "closed", raised |-> pending, probes |-> 1,
                   calls |-> 1, closed |-> 1]
             ELSE [conn |-> "dead", raised |-> "ConnectionCloseError", probes |-> 1,
                   calls |-> 1, closed |-> 0]
        ELSE [conn |-> conn, raised |-> pending, probes |-> 1, calls |-> 0, closed |-> 0]

(***************************************************************************)
(* The connection may be lost at any moment of a release.  lost is the     *)
(* first release step that finds it gone: 1 ch.close(), 2 the heartbeat,   *)
(* 3 conn.close(), 4 none.                                                 *)
(***************************************************************************)
LossPoints == 1..4

AliveAt(conn, lost, step) == conn = "alive" /\ lost > step

Outcome(alive, cls) == IF alive THEN "ok" ELSE cls

\* The calls a release made, in order.
Steps(kind, chCalls, probes, connCalls) ==
    [channel |-> (IF kind = "channel" THEN <<"ch.is_open">> ELSE <<>>)
                 \o (IF chCalls = 1 THEN <<"ch.close">> ELSE <<>>),
     connection |-> (IF probes = 1 THEN <<"send_heartbeat">> ELSE <<>>)
                    \o (IF connCalls = 1 THEN <<"conn.close">> ELSE <<>>)]

\* The whole release of one scope: the channel's finally block (channel()
\* only), then the connection's, which encloses it.
Release_connection_first(kind, conn, ch, pending, lost, cls1, cls2) ==
    LET hb == Outcome(AliveAt(conn, lost, 1), cls2)
        k == ConnectionFinally(IF AliveAt(conn, lost, 1) THEN "alive" ELSE "dead",
                               pending, hb, Outcome(AliveAt(conn, lost, 2), "IOError"))
        c == IF kind = "channel"
             THEN ChannelFinally(ch, k.raised, Outcome(k.conn = "alive", cls1))
             ELSE [ch |-> ch, raised |-> k.raised, calls |-> 0, closed |-> 0]
        st == Steps(kind, c.calls, k.probes, k.calls)
    IN  [raised |-> c.raised, ch |-> c.ch, conn |-> k.conn, hb |-> hb,
         chCloseCalls |-> c.calls, chClosed |-> c.closed,
         probes |-> k.probes, connCloseCalls |-> k.calls, connClosed |-> k.closed,
         steps |-> st.connection \o st.channel]

Release(kind, conn, ch, pending, lost, cls1, cls2) ==
    LET c == IF kind = "channel"
             THEN ChannelFinally(ch, pending, Outcome(AliveAt(conn, lost, 1), cls1))
             ELSE [ch |-> ch, raised |-> pending, calls |-> 0, closed |-> 0]
        hb == Outcome(AliveAt(conn, lost, 2), cls2)
        k == ConnectionFinally(IF AliveAt(conn, lost, 2) THEN "alive" ELSE "dead",
                               c.raised, hb,
                               Outcome(AliveAt(conn, lost, 3), "IOError"))
        st == Steps(kind, c.calls, k.probes, k.calls)
    IN  [raised |-> k.raised, ch |-> c.ch, conn |-> k.conn, hb |-> hb,
         chCloseCalls |-> c.calls, chClosed |-> c.closed,
         probes |-> k.probes, connCloseCalls |-> k.calls, connClosed |-> k.closed,
         steps |-> st.channel \o st.connection]

Top == stack[Len(stack)]

Live(conn) == IF conn = "alive" THEN 1 ELSE 0

(***************************************************************************)
(* __init__.py:81-87 and 97-114: entering a scope.  connects: whether      *)
(* amqp.Connection(...) and conn.connect() establish the connection (an    *)
(* AttributeError of connect() is swallowed: before amqp 2.0 the           *)
(* constructor has connected already); created: whether conn.channel()     *)
(* succeeds.  A failing conn.channel() leaves through the connection's     *)
(* finally block.                                                          *)
(***************************************************************************)
Enter(kind, connects, created, lost, cls2) ==
    IF connects = "error"
    THEN [entered |-> FALSE,
          event |-> [NoEvent EXCEPT !.kind = kind, !.body = "not run",
                                    !.acquire = "connect failed",
                                    !.raised = "ConnectError"],
          connOpens |-> 0, chOpens |-> 0, connClosed |-> 0]
    ELSE IF kind = "channel" /\ ~created
    THEN LET r == Release("connection", "alive", "none", "ChannelOpenError",
                          lost, "IOError", cls2)
         IN  [entered |-> FALSE,
              event |-> [kind |-> kind, acquire |-> "channel failed",
                         body |-> "not run", raised |-> r.raised,
                         chBefore |-> "none", ch |-> "none", conn |-> r.conn,
                         hb |-> r.hb, chCloseCalls |-> 0, probes |-> r.probes,
                         connCloseCalls |-> r.connCloseCalls, steps |-> r.steps],
              connOpens |-> 1, chOpens |-> 0, connClosed |-> r.connClosed]
    ELSE [entered |-> TRUE,
          event |-> [NoEvent EXCEPT !.kind = kind, !.body = "running",
                                    !.acquire = "ok", !.conn = "alive",
                                    !.ch = IF kind = "channel" THEN "open" ELSE "none"],
          connOpens |-> 1, chOpens |-> IF kind = "channel" THEN 1 ELSE 0,
          connClosed |-> 0]

KuyrukEnter ==
    /\ obj = "Kuyruk"
    /\ hist.calls < MaxScopes
    /\ Len(stack) < MaxDepth
    /\ \E kind \in {"channel", "connection"},
          connects \in {"ok", "AttributeError", "error"},
          created \in BOOLEAN, lost \in {2, 3, 4}, cls2 \in ErrClasses :
        LET e == Enter(kind, connects, created, lost, cls2)
        IN  /\ stack' = IF e.entered
                        THEN Append(stack, [kind |-> kind, conn |-> "alive",
                                            ch |-> e.event.ch])
                        ELSE stack
            /\ last' = e.event
            /\ hist' = [hist EXCEPT
                    !.calls = @ + 1,
                    !.connOpens = @ + e.connOpens,
                    !.chOpens = @ + e.chOpens,
                    !.connCloses = @ + e.connClosed,
                    !.leaked = @ + Live(IF e.entered THEN "none" ELSE e.event.conn),
                    !.nested = @ \/ (e.entered /\ stack # <<>>),
                    !.faulted = @ \/ ~e.entered]
    /\ UNCHANGED <<obj, taskVars, threadVars, lazyVars>>

\* The body closes the channel it was given before it leaves the scope.
BodyClosesChannel ==
    /\ obj = "Kuyruk"
    /\ stack # <<>>
    /\ Top.kind = "channel" /\ Top.ch = "open" /\ Top.conn = "alive"
    /\ stack' = [stack EXCEPT ![Len(stack)].ch = "closed"]
    /\ hist' = [hist EXCEPT !.chCloses = @ + 1]
    /\ UNCHANGED <<obj, taskVars, threadVars, lazyVars, last>>

\* The broker or the network ends the connection of a scope in progress.
KuyrukConnectionDies ==
    /\ obj = "Kuyruk"
    /\ \E i \in DOMAIN stack :
        /\ stack[i].conn = "alive"
        /\ stack' = [stack EXCEPT ![i].conn = "dead"]
    /\ hist' = [hist EXCEPT !.faulted = TRUE]
    /\ UNCHANGED <<obj, taskVars, threadVars, lazyVars, last>>

(***************************************************************************)
(* __init__.py:88-95 and 113-117: the body of the innermost scope ends,    *)
(* by returning or by raising, and the scope releases what it acquired.    *)
(***************************************************************************)
KuyrukExit ==
    /\ obj = "Kuyruk"
    /\ stack # <<>>
    /\ \E raises \in BOOLEAN, lost \in LossPoints, cls1 \in ErrClasses,
          cls2 \in ErrClasses :
        LET r == Release(Top.kind, Top.conn, Top.ch,
                         IF raises THEN "BodyError" ELSE "none", lost, cls1, cls2)
        IN  /\ last' = [kind |-> Top.kind, acquire |-> "ok",
                        body |-> IF raises THEN "raised" ELSE "returned",
                        raised |-> r.raised, chBefore |-> Top.ch, ch |-> r.ch,
                        conn |-> r.conn, hb |-> r.hb,
                        chCloseCalls |-> r.chCloseCalls, probes |-> r.probes,
                        connCloseCalls |-> r.connCloseCalls, steps |-> r.steps]
            /\ hist' = [hist EXCEPT
                    !.chCloses = @ + r.chClosed,
                    !.connCloses = @ + r.connClosed,
                    !.leaked = @ + Live(r.conn),
                    !.faulted = @ \/ (Top.conn = "alive" /\ lost < 4)]
    /\ stack' = SubSeq(stack, 1, Len(stack) - 1)
    /\ UNCHANGED <<obj, taskVars, threadVars, lazyVars>>

(***************************************************************************)
(* kuyruk/__init__.py:41-79, Kuyruk.__init__ and Kuyruk.task.  A Python    *)
(* value is its type and a label; an argument left out of a call is        *)
(* Omitted, and the signature's default takes its place.                   *)
(***************************************************************************)
Value(type, v) == [type |-> type, v |-> v]

NoneValue == Value("NoneType", "None")
Omitted == Value("omitted", "")
Fn(f) == Value("function", f)
Str(x) == Value("str", x)
Int(n) == Value("int", n)

Functions == {Fn("add"), Fn("mul")}

callable(x) == x.type = "function"

Arg(given, default) == IF given = Omitted THEN default ELSE given

\* __init__.py:41-47.  Config() is the default config; isinstance holds of
\* Config and of its subclasses.
DefaultConfig == Value("Config", "defaults")

ConfigArgs == {NoneValue, Value("Config", "custom"), Value("ConfigSubclass", "custom"),
               Value("dict", "settings"), Str("localhost")}

isinstance_Config(x) == x.type \in {"Config", "ConfigSubclass"}

NoInstance == [exists |-> FALSE, config |-> NoneValue]

Kuyruk_init_unchecked(config) ==
    [raised |-> "none",
     self |-> [exists |-> TRUE,
               config |-> IF config = NoneValue THEN DefaultConfig ELSE config]]

Kuyruk_init(config) ==
    LET c == IF config = NoneValue THEN DefaultConfig ELSE config
    IN  IF ~isinstance_Config(c)
        THEN [raised |-> "TypeError", self |-> NoInstance]
        ELSE [raised |-> "none", self |-> [exists |-> TRUE, config |-> c]]

\* __init__.py:49, the defaults of task's parameters.
DefaultQueue == Str("kuyruk")
DefaultRetry == Int("0")
DefaultMaxRunTime == NoneValue

\* __init__.py:67, the queue name of a task registered with the bare form.
BareQueue_default == Str("default")

BareQueue == Str("kuyruk")

\* __init__.py:69-71, the arguments Task is constructed with.
Task(f, self, queue, retry, max_run_time) ==
    [kind |-> "Task", f |-> f, self |-> self, queue |-> queue,
     retry |-> retry, max_run_time |-> max_run_time]

NoTask == Task(NoneValue, NoInstance, NoneValue, NoneValue, NoneValue)

\* __init__.py:64-72, decorator(): the function inner, closed over task's
\* arguments (f is not bound yet).
decorator(self, queue, retry, max_run_time) ==
    [kind |-> "inner", f |-> NoneValue, self |-> self, queue |-> queue,
     retry |-> retry, max_run_time |-> max_run_time]

NoBuilder == [decorator(NoInstance, NoneValue, NoneValue, NoneValue) EXCEPT !.kind = "none"]

\* __init__.py:65-71, inner(f).
inner_keeps_queue(closure, f) ==
    Task(f, closure.self, closure.queue, closure.retry, closure.max_run_time)

inner(closure, f) ==
    LET queue_ == IF callable(closure.queue) THEN BareQueue ELSE closure.queue
    IN  Task(f, closure.self, queue_, closure.retry, closure.max_run_time)

\* __init__.py:74-79, the body of task().
task_bare_returns_builder(self, queue, retry, max_run_time) ==
    decorator(self, queue, retry, max_run_time)

task(self, queue, retry, max_run_time) ==
    IF callable(queue)
    THEN inner(decorator(self, queue, retry, max_run_time), queue)
    ELSE decorator(self, queue, retry, max_run_time)

(***************************************************************************)
(* Network events: connections opened, channels opened, messages           *)
(* published.  Task's constructor (kuyruk/task.py) stores its arguments    *)
(* and causes none.                                                        *)
(***************************************************************************)
NoNet == [connOpens |-> 0, chOpens |-> 0, publishes |-> 0]

Task_init_net == NoNet

\* What a call of task() adds to the network events: task() itself calls
\* nothing but decorator(), inner() and Task(...).
task_net_connects(result) ==
    IF result.kind = "Task" THEN [Task_init_net EXCEPT !.connOpens = @ + 1] ELSE NoNet

task_net(result) == IF result.kind = "Task" THEN Task_init_net ELSE NoNet

AddNet(n, m) == [connOpens |-> n.connOpens + m.connOpens,
                 chOpens |-> n.chOpens + m.chOpens,
                 publishes |-> n.publishes + m.publishes]

NoArgs == [queue |-> Omitted, retry |-> Omitted, max_run_time |-> Omitted]

NoRegistration == [form |-> "none", given |-> NoArgs, bare |-> NoTask, call |-> NoTask]

\* k = Kuyruk(config), at start-up: until it succeeds there is no instance.
Construct ==
    /\ obj = "Kuyruk.task"
    /\ ~kuyruk.exists
    /\ \E config \in ConfigArgs :
        LET k == Kuyruk_init(config)
        IN  /\ kuyruk' = IF k.raised = "none" THEN k.self ELSE kuyruk
            /\ res' = IF k.raised = "none" THEN "ok" ELSE k.raised
            /\ attempt' = config.type
    /\ op' = "Kuyruk"
    /\ UNCHANGED <<obj, _connection, conns, ret, kuyrukVars, threadVars,
                   builder, reg, net>>

\* @k.task above def f: task(f)
RegisterBare ==
    /\ obj = "Kuyruk.task"
    /\ kuyruk.exists
    /\ \E f \in Functions :
        LET r == task(kuyruk, f, DefaultRetry, DefaultMaxRunTime)
        IN  /\ reg' = [reg EXCEPT !.form = "bare",
                           !.bare = IF r.kind = "Task" THEN r ELSE NoTask]
            /\ builder' = IF r.kind = "Task" THEN builder ELSE r
            /\ net' = AddNet(net, task_net(r))
    /\ op' = "task(f)"
    /\ res' = "ok"
    /\ attempt' = "none"
    /\ UNCHANGED <<obj, _connection, conns, ret, kuyrukVars, threadVars, kuyruk>>

\* k.task(...), with or without queue, retry and max_run_time
CallTask ==
    /\ obj = "Kuyruk.task"
    /\ kuyruk.exists
    /\ \E queue \in {Omitted, Str("math")}, retry \in {Omitted, Int("3")},
          max_run_time \in {Omitted, Int("60")} :
        LET r == task(kuyruk, Arg(queue, DefaultQueue), Arg(retry, DefaultRetry),
                      Arg(max_run_time, DefaultMaxRunTime))
        IN  /\ builder' = r
            /\ reg' = [reg EXCEPT !.form = "called", !.call = NoTask,
                           !.given = [queue |-> queue, retry |-> retry,
                                      max_run_time |-> max_run_time]]
            /\ net' = AddNet(net, task_net(r))
    /\ op' = "task(...)"
    /\ res' = "ok"
    /\ attempt' = "none"
    /\ UNCHANGED <<obj, _connection, conns, ret, kuyrukVars, threadVars, kuyruk>>

\* @k.task(...) above def f: the value task(...) returned, applied to f
Decorate ==
    /\ obj = "Kuyruk.task"
    /\ builder.kind = "inner"
    /\ reg.form \in {"called", "decorated"}
    /\ \E f \in Functions :
        LET r == inner(builder, f)
        IN  /\ reg' = [reg EXCEPT !.form = "decorated", !.call = r]
            /\ net' = AddNet(net, task_net(r))
    /\ op' = "task(...)(f)"
    /\ res' = "ok"
    /\ attempt' = "none"
    /\ UNCHANGED <<obj, _connection, conns, ret, kuyrukVars, threadVars,
                   kuyruk, builder>>

(***************************************************************************)
(* kuyruk/connection.py, channel() called by several threads on one        *)
(* manager.  Nothing in LazyConnection takes a lock, so another thread may *)
(* run between any two of: the test of line 29, the assertion of line 21,  *)
(* the connection attempt of lines 22-25, the store into self._connection  *)
(* of line 25, and self._connection.channel() of line 32.                  *)
(***************************************************************************)
NThreads == 2

Threads == 1..NThreads

\* A thread outside channel(): res and ret are those of its latest call.
Idle == [pc |-> "idle", made |-> None, res |-> "none", ret |-> None]

NoRace == [overlap |-> FALSE, assertFailed |-> FALSE]

\* connection.py:29, 'if not self.is_open'
channel_test_skipped == TRUE

channel_test == ~is_open

\* connection.py:28-29: the call starts and tests the manager.
ThreadCall ==
    /\ obj = "LazyConnection threads"
    /\ \E t \in Threads :
        /\ thr[t].pc = "idle"
        /\ thr' = [thr EXCEPT ![t].pc = IF channel_test THEN "assert" ELSE "channel"]
        /\ race' = [race EXCEPT !.overlap =
                        @ \/ \E u \in Threads \ {t} : thr[u].pc # "idle"]
    /\ UNCHANGED <<obj, taskVars, kuyrukVars, lazyVars>>

\* connection.py:21, 'assert not self.is_open'
ThreadAssert ==
    /\ obj = "LazyConnection threads"
    /\ \E t \in Threads :
        /\ thr[t].pc = "assert"
        /\ IF is_open
           THEN /\ thr' = [thr EXCEPT ![t].pc = "idle", ![t].res = "AssertionError",
                                      ![t].ret = None]
                /\ race' = [race EXCEPT !.assertFailed = TRUE]
           ELSE /\ thr' = [thr EXCEPT ![t].pc = "connect"]
                /\ UNCHANGED race
    /\ UNCHANGED <<obj, taskVars, kuyrukVars, lazyVars>>

\* connection.py:22-25, pika.BlockingConnection(parameters) before the store.
ThreadConnect ==
    /\ obj = "LazyConnection threads"
    /\ \E t \in Threads, accepts \in BOOLEAN :
        /\ thr[t].pc = "connect"
        /\ IF accepts
           THEN /\ conns' = Connected.t
                /\ thr' = [thr EXCEPT ![t].pc = "store", ![t].made = Connected.c]
           ELSE /\ conns' = Rejected.t
                /\ thr' = [thr EXCEPT ![t].pc = "idle", ![t].res = Rejected.res,
                                      ![t].ret = None]
    /\ UNCHANGED <<obj, taskVars, kuyrukVars, race, _connection, op, res, ret, attempt>>

\* connection.py:25, the store into self._connection; open() returns.
ThreadStore ==
    /\ obj = "LazyConnection threads"
    /\ \E t \in Threads :
        /\ thr[t].pc = "store"
        /\ _connection' = thr[t].made
        /\ thr' = [thr EXCEPT ![t].pc = "channel", ![t].made = None]
    /\ UNCHANGED <<obj, taskVars, kuyrukVars, race, conns, op, res, ret, attempt>>

\* connection.py:32, 'return self._connection.channel()'
ThreadChannel ==
    /\ obj = "LazyConnection threads"
    /\ \E t \in Threads, created \in BOOLEAN :
        /\ thr[t].pc = "channel"
        /\ thr' = [thr EXCEPT ![t].pc = "idle",
                              ![t].res = IF created THEN "ok" ELSE "ChannelError",
                              ![t].ret = IF created THEN _connection ELSE None]
    /\ UNCHANGED <<obj, taskVars, kuyrukVars, race, lazyVars>>

Fresh ==
    /\ _connection = None
    /\ conns = <<>>
    /\ op = "init"
    /\ res = "ok"
    /\ ret = None
    /\ attempt = "none"
    /\ stack = <<>>
    /\ last = NoEvent
    /\ hist = NoHist
    /\ kuyruk = NoInstance
    /\ builder = NoBuilder
    /\ reg = NoRegistration
    /\ net = NoNet
    /\ thr = [t \in Threads |-> Idle]
    /\ race = NoRace

Init == obj \in {"LazyConnection", "Kuyruk"} /\ Fresh

InitTask == obj = "Kuyruk.task" /\ Fresh

NextTask ==
    \/ Construct
    \/ RegisterBare
    \/ CallTask
    \/ Decorate

SpecTask == InitTask /\ [][NextTask]_vars

InitThreads == obj = "LazyConnection threads" /\ Fresh

NextThreads ==
    \/ ThreadCall
    \/ ThreadAssert
    \/ ThreadConnect
    \/ ThreadStore
    \/ ThreadChannel

SpecThreads == InitThreads /\ [][NextThreads]_vars

Next ==
    \/ LazyOpen
    \/ LazyChannel
    \/ LazyClose
    \/ ConnectionDies
    \/ Heartbeat
    \/ KuyrukEnter
    \/ BodyClosesChannel
    \/ KuyrukConnectionDies
    \/ KuyrukExit

Spec == Init /\ [][Next]_vars

(***************************************************************************)
(* Properties.  They speak of the state itself: ManagerOpen is the truth   *)
(* is_open is meant to report, read off the connection table.              *)
(***************************************************************************)
ManagerOpen == _connection # None /\ conns[_connection].is_open

Opens == Len(conns)

LazyLive == Cardinality({c \in DOMAIN conns : conns[c].is_open})

\* C3: nothing is opened at construction; a successful channel() leaves the
\* manager open and returns a channel on its connection; on a manager that
\* was not open it is the one connection-open event of the call, and on an
\* open manager it opens no connection and keeps the one in use.
C3_LazySingleOpen ==
    /\ [](op = "init" => (_connection = None /\ conns = <<>>))
    /\ [][(op' = "channel" /\ res' = "ok") =>
            /\ ManagerOpen'
            /\ ret' = _connection'
            /\ IF ManagerOpen
               THEN _connection' = _connection /\ Opens' = Opens
               ELSE _connection' = Opens + 1 /\ Opens' = Opens + 1]_vars

\* A channel() that reuses a connection opened earlier (a heartbeat was
\* exchanged on it in between).
C3_Witness ==
    /\ op = "channel" /\ res = "ok" /\ ret = 1 /\ Opens = 1
    /\ conns[1].probe = "ok"

\* C4 as stated: once the manager has had a connection and is no longer
\* open, no call brings it back to open.
C4_NoWayBack ==
    [][(_connection # None /\ ~ManagerOpen) => ~ManagerOpen']_vars

\* C4 amended: a closed manager comes back to open only through open() or
\* channel(), and then on a new connection object; a connection object that
\* is closed or dead never becomes open again.
C4_ReopensOnNewConnection ==
    [][/\ \A c \in DOMAIN conns : ~conns[c].is_open => ~conns'[c].is_open
       /\ (_connection # None /\ ~ManagerOpen /\ ManagerOpen') =>
            /\ op' \in {"open", "channel"}
            /\ _connection' = Opens + 1
            /\ Opens' = Opens + 1]_vars

\* A manager that is open again on its second connection.
C4_Witness == ManagerOpen /\ _connection = 2 /\ ~conns[1].is_open

\* C6: close() on a manager that is not open returns normally, calls no
\* close() on any connection and changes nothing; close() on an open manager
\* calls close() on its connection, and no connection ever has close()
\* called on it twice.
C6_CloseIdempotent ==
    /\ [](\A c \in DOMAIN conns : conns[c].closes <= 1)
    /\ [][(op' = "close" /\ ~ManagerOpen) =>
            (res' = "ok" /\ _connection' = _connection /\ conns' = conns)]_vars
    /\ [][(op' = "close" /\ ManagerOpen) =>
            (conns'[_connection].closes = 1 /\ ~ManagerOpen')]_vars

\* close() returned on a manager whose connection had died: nothing closed.
C6_Witness ==
    /\ op = "close" /\ res = "ok" /\ _connection # None
    /\ ~conns[_connection].is_open /\ conns[_connection].closes = 0

C8_RejectedOpenLeavesNothing ==
    [][(op' \in {"open", "channel"} /\ attempt' = "rejected") =>
            /\ res' = "ConnectionError"
            /\ ret' = None
            /\ _connection' = _connection
            /\ conns' = conns
            /\ ~ManagerOpen']_vars

\* channel() rejected on a manager whose earlier connection is gone.
C8_Witness ==
    /\ op = "channel" /\ attempt = "rejected" /\ res = "ConnectionError"
    /\ _connection # None

\* C10: open() on an open manager raises the assertion error without a
\* connection attempt, and the connection and is_open stay as they were.
C10_OpenWhileOpenAsserts ==
    [][(op' = "open" /\ ManagerOpen) =>
            /\ res' = "AssertionError"
            /\ attempt' = "none"
            /\ _connection' = _connection
            /\ conns' = conns
            /\ ManagerOpen']_vars

C10_Witness == op = "open" /\ res = "AssertionError" /\ ManagerOpen


ReleaseErrors == {"ChannelCloseError", "HeartbeatError", "ConnectionCloseError"}

KuyrukLive ==
    hist.leaked + Cardinality({i \in DOMAIN stack : stack[i].conn = "alive"})

\* C1: after a channel() scope has exited, by return or by an error of the
\* body, the channel is closed (counted as closed too when its connection
\* is gone, whatever its flag says), and if the body raised, the error
\* leaving the scope is the body's.
C1_BodyErrorSurvivesRelease ==
    (last.kind = "channel" /\ last.body \in {"returned", "raised"}) =>
        /\ last.ch = "closed" \/ last.conn \in {"closed", "dead"}
        /\ last.body = "raised" => last.raised = "BodyError"

\* C2: no error of a release step (ch.close(), the heartbeat probe,
\* conn.close()) leaves channel() or connection().
C2_ReleaseNeverRaises == last.raised \notin ReleaseErrors

\* Two channel() scopes, one after the other, both entered, both left,
\* and nothing else done with the Kuyruk instance.
TwoSequentialScopes ==
    /\ obj = "Kuyruk" /\ stack = <<>>
    /\ hist.calls = 2 /\ hist.chOpens = 2 /\ ~hist.nested

BareRegistered == reg.bare # NoTask

CallRegistered == reg.call # NoTask

\* C11: whichever way task is applied, the descriptor's queue is a string,
\* not None and not the function: the bare form and the forms that leave
\* queue out get the one default queue name, and task(queue=x) gets x.
C11_QueueIsAlwaysAName ==
    /\ BareRegistered =>
          (reg.bare.queue.type = "str" /\ reg.bare.queue = DefaultQueue)
    /\ CallRegistered =>
          /\ reg.call.queue.type = "str"
          /\ reg.call.queue = IF reg.given.queue = Omitted THEN DefaultQueue
                              ELSE reg.given.queue

\* Both forms were used, the second with queue="math".
C11_Witness ==
    /\ BareRegistered /\ CallRegistered
    /\ reg.given.queue = Str("math") /\ reg.call.queue = Str("math")

\* C12: task(f) returns the descriptor itself and task(...) a builder that
\* gives the descriptor when applied to f; task(f) and task()(f) build the
\* same descriptor (f, the same Kuyruk, the same queue, retry 0,
\* max_run_time None), and the builder passes the arguments of task(...)
\* through unchanged.
C12_SameDescriptorShape ==
    /\ op = "task(f)" => (BareRegistered /\ reg.bare.kind = "Task")
    /\ op = "task(...)" => (builder.kind = "inner" /\ ~CallRegistered)
    /\ op = "task(...)(f)" => (CallRegistered /\ reg.call.kind = "Task")
    /\ BareRegistered =>
          /\ reg.bare.f \in Functions /\ reg.bare.self = kuyruk
          /\ reg.bare.retry = Int("0") /\ reg.bare.max_run_time = NoneValue
    /\ CallRegistered =>
          /\ reg.call.f \in Functions /\ reg.call.self = kuyruk
          /\ reg.call.queue = Arg(reg.given.queue, DefaultQueue)
          /\ reg.call.retry = Arg(reg.given.retry, Int("0"))
          /\ reg.call.max_run_time = Arg(reg.given.max_run_time, NoneValue)
    /\ (BareRegistered /\ CallRegistered /\ reg.given = NoArgs
            /\ reg.bare.f = reg.call.f) => reg.bare = reg.call

\* task(f) and task()(f) were both used with the same f.
C12_Witness ==
    /\ BareRegistered /\ CallRegistered /\ reg.given = NoArgs
    /\ reg.bare.f = reg.call.f /\ reg.bare = reg.call

C14_ConfigValidatedEagerly ==
    /\ kuyruk.exists => kuyruk.config.type \in {"Config", "ConfigSubclass"}
    /\ (op = "Kuyruk" /\ attempt \notin {"NoneType", "Config", "ConfigSubclass"}) =>
          /\ res = "TypeError" /\ ~kuyruk.exists
          /\ reg = NoRegistration /\ builder = NoBuilder /\ net = NoNet
    /\ (op = "Kuyruk" /\ attempt = "NoneType") =>
          (res = "ok" /\ kuyruk.exists /\ kuyruk.config = DefaultConfig)

\* Kuyruk({...}) with a dict was refused.
C14_Witness == op = "Kuyruk" /\ attempt = "dict" /\ res = "TypeError" /\ ~kuyruk.exists

\* A descriptor registered without a queue argument: its queue is name.
UnnamedQueueIs(name) ==
    /\ BareRegistered => reg.bare.queue = Str(name)
    /\ (CallRegistered /\ reg.given.queue = Omitted) => reg.call.queue = Str(name)

\* C15 as stated: the default queue name is "default".
C15_DefaultQueueIsDefault == UnnamedQueueIs("default")

\* C15 amended: the default queue name is "kuyruk".
C15_DefaultQueueIsKuyruk == UnnamedQueueIs("kuyruk")

C15_Witness ==
    /\ BareRegistered /\ CallRegistered /\ reg.given.queue = Omitted
    /\ reg.bare.queue = Str("kuyruk") /\ reg.call.queue = Str("kuyruk")

(***************************************************************************)
(* Release of a Kuyruk scope, step by step                                 *)
(***************************************************************************)
\* The connection() scope of the last event was left: by its body, or
\* because channel() failed to get a channel inside it.
ConnectionScopeLeft ==
    last.body \in {"returned", "raised"} \/ last.acquire = "channel failed"

ChannelScopeLeft == last.kind = "channel" /\ last.body \in {"returned", "raised"}

\* C16: at every exit of a connection() scope the connection is probed once
\* with a heartbeat; a successful probe is followed by exactly one close(),
\* a probe failing with an I/O error by no close() at all, and then the
\* exit raises neither a probe error nor a close error.
C16_ProbeDecidesClose ==
    ConnectionScopeLeft =>
        /\ last.probes = 1
        /\ last.hb = "ok" => last.connCloseCalls = 1
        /\ last.hb = "IOError" =>
               /\ last.connCloseCalls = 0
               /\ last.raised \notin {"HeartbeatError", "ConnectionCloseError"}

C16_Witness ==
    /\ last.kind = "connection" /\ last.body = "returned"
    /\ last.hb = "IOError" /\ last.probes = 1 /\ last.connCloseCalls = 0
    /\ last.raised = "none"

\* C17: a channel() scope left with its channel no longer open does not
\* call close() on the channel and raises no channel close error; no
\* channel() scope calls close() on its channel more than once.
C17_ClosedChannelNotClosedAgain ==
    /\ last.chCloseCalls <= 1
    /\ (ChannelScopeLeft /\ last.chBefore = "closed") =>
           /\ last.chCloseCalls = 0
           /\ last.raised # "ChannelCloseError"

C17_Witness ==
    /\ ChannelScopeLeft /\ last.body = "returned"
    /\ last.chBefore = "closed" /\ last.chCloseCalls = 0
    /\ last.ch = "closed" /\ last.raised = "none"

\* C19: when channel() gets a connection but no channel, the error of
\* conn.channel() reaches the caller, the body is not run, and the
\* connection is probed, closed if the probe succeeds, and not left live;
\* when the connection itself cannot be made, that error reaches the caller
\* and neither a channel nor the body follows.
C19_AcquisitionErrorPropagates ==
    /\ last.acquire = "channel failed" =>
           /\ last.raised = "ChannelOpenError"
           /\ last.body = "not run"
           /\ last.probes = 1
           /\ last.hb = "ok" => last.connCloseCalls = 1
           /\ last.conn # "alive"
    /\ last.acquire = "connect failed" =>
           /\ last.raised = "ConnectError"
           /\ last.body = "not run"
           /\ last.ch = "none" /\ last.conn = "none"

ChannelSteps == {"ch.is_open", "ch.close"}

ConnectionSteps == {"send_heartbeat", "conn.close"}

\* C20: every frame whose body is running holds a connection the scope has
\* not closed and, for channel(), a channel it has acquired; and at every
\* exit of a channel() scope the channel is released first (tested, closed
\* if open), only then is the connection probed and closed.
C20_ChannelReleasedBeforeConnection ==
    /\ \A i \in DOMAIN stack :
           /\ stack[i].conn \in {"alive", "dead"}
           /\ stack[i].kind = "channel" => stack[i].ch \in {"open", "closed"}
    /\ last.body = "running" => (stack # <<>> /\ last.steps = <<>>)
    /\ ChannelScopeLeft =>
           /\ last.steps # <<>> /\ last.steps[1] = "ch.is_open"
           /\ "send_heartbeat" \in {last.steps[i] : i \in DOMAIN last.steps}
           /\ \A i, j \in DOMAIN last.steps :
                  (last.steps[i] \in ConnectionSteps /\ last.steps[j] \in ChannelSteps)
                      => j < i

C20_Witness ==
    /\ ChannelScopeLeft /\ last.body = "raised"
    /\ last.steps = <<"ch.is_open", "ch.close", "send_heartbeat", "conn.close">>

(***************************************************************************)
(* LazyConnection.channel() from several threads                           *)
(***************************************************************************)
Completed(t) == thr[t].pc = "idle" /\ thr[t].res # "none"

====
